---------------------------- MODULE Spec2Model ----------------------------
(***************************************************************************)
(* ESP32 DAC synthesizer, both editions of the firmware:                   *)
(*   "basic" = src/esp32_synth.ino     (switch, buttons, LEDs)             *)
(*   "menu"  = src/unnamed/part_000    (rotary menu edition, ratchet gate) *)
(*                                                                         *)
(* One foreground thread (setup, then loop) is preempted by one timer      *)
(* interrupt (onTimer).  The interrupt handler runs to completion, so it   *)
(* is one atomic action; the foreground is cut at every statement of       *)
(* setFrequency / playNote / stopNote, so the interrupt may fire between   *)
(* any two of them.  millis() is a monotone clock that advances on its     *)
(* own.  Frequencies held in a C float are kept in hundredths of a hertz.  *)
(***************************************************************************)
EXTENDS Integers, Sequences, FiniteSets

\* ------------------------------------------------------------ constants
SAMPLES == 256
RATCHET_BASE_HZ == 8
NUM_KEYS == 12
TIMER_HZ == 1000000
SETUP_ALARM == 100
UINT8 == 256

\* NOTE_FREQS_OCT4[i], in hundredths of a hertz (index i is entry i+1)
NOTE_FREQS_OCT4 ==
  << 26163, 27718, 29366, 31113, 32963, 34923,
     36999, 39200, 41530, 44000, 46616, 49388 >>

\* ------------------------------------------------------------ bounds
\* SpecSettings and SpecNote follow the phase over its first MaxPhase
\* advances; Spec and SpecCycle follow it over the whole table
MaxPhase == 2
\* the millisecond clock is followed up to MaxClock
MaxClock == 125
\* at most MaxHeld keys are touched at the same time
MaxHeld == 2
\* the volume dial is followed MaxDial detents up and down from power-on
MaxDial == 1
\* while a full cycle is followed, the clock is looked at every ClockStride ticks
ClockStride == 64

\* ------------------------------------------------------------ waveform tables
\* generateWaveforms(): squareWave[i]
squareWave == [i \in 0..(SAMPLES - 1) |-> IF i < SAMPLES \div 2 THEN 255 ELSE 0]

\* generateWaveforms(): triangleWave[i], with the (uint8_t) conversion
triangleWave ==
  [i \in 0..(SAMPLES - 1) |->
     IF i < SAMPLES \div 2
       THEN ((i * 512) \div SAMPLES) % UINT8
       ELSE (255 - (((i - SAMPLES \div 2) * 512) \div SAMPLES)) % UINT8]

\* generateWaveforms(): sineWave[i] = (uint8_t)(127.5 + 127.5*sin(2*PI*i/SAMPLES)),
\* the values the double arithmetic of the code yields (entry i+1 is sineWave[i])
sineWave ==
  << 127, 130, 133, 136, 139, 143, 146, 149, 152, 155, 158, 161, 164, 167, 170, 173,
     176, 179, 182, 184, 187, 190, 193, 195, 198, 200, 203, 205, 208, 210, 213, 215,
     217, 219, 221, 224, 226, 228, 229, 231, 233, 235, 236, 238, 239, 241, 242, 244,
     245, 246, 247, 248, 249, 250, 251, 251, 252, 253, 253, 254, 254, 254, 254, 254,
     255, 254, 254, 254, 254, 254, 253, 253, 252, 251, 251, 250, 249, 248, 247, 246,
     245, 244, 242, 241, 239, 238, 236, 235, 233, 231, 229, 228, 226, 224, 221, 219,
     217, 215, 213, 210, 208, 205, 203, 200, 198, 195, 193, 190, 187, 184, 182, 179,
     176, 173, 170, 167, 164, 161, 158, 155, 152, 149, 146, 143, 139, 136, 133, 130,
     127, 124, 121, 118, 115, 111, 108, 105, 102,  99,  96,  93,  90,  87,  84,  81,
      78,  75,  72,  70,  67,  64,  61,  59,  56,  54,  51,  49,  46,  44,  41,  39,
      37,  35,  33,  30,  28,  26,  25,  23,  21,  19,  18,  16,  15,  13,  12,  10,
       9,   8,   7,   6,   5,   4,   3,   3,   2,   1,   1,   0,   0,   0,   0,   0,
       0,   0,   0,   0,   0,   0,   1,   1,   2,   3,   3,   4,   5,   6,   7,   8,
       9,  10,  12,  13,  15,  16,  18,  19,  21,  23,  25,  26,  28,  30,  33,  35,
      37,  39,  41,  44,  46,  49,  51,  54,  56,  59,  61,  64,  67,  70,  72,  75,
      78,  81,  84,  87,  90,  93,  96,  99, 102, 105, 108, 111, 115, 118, 121, 124 >>

\* currentWaveform[i]: the table the pointer selects, read at index i
TableAt(w, i) ==
  CASE w = "SQUARE"   -> squareWave[i]
    [] w = "TRIANGLE" -> triangleWave[i]
    [] w = "SINE"     -> sineWave[i + 1]

\* ------------------------------------------------------------ arithmetic
\* (mutant) a conversion that rounds to the nearest integer
ToIntRound(f) == (f + 50) \div 100

\* (mutant) a resolution that ignores the octave flag
ResolveFreqNoOctave(i, high) == NOTE_FREQS_OCT4[i + 1]

\* (int)freq: C conversion of a float to int truncates toward zero
ToInt(f) == IF f >= 0 THEN f \div 100 ELSE -((-f) \div 100)

\* playNote: float freq = isHighOctave ? baseFreq * 2.0 : baseFreq
ResolveFreq(i, high) ==
  IF high THEN NOTE_FREQS_OCT4[i + 1] * 2 ELSE NOTE_FREQS_OCT4[i + 1]

\* setFrequency: the alarm value 1000000 / (currentFreq * SAMPLES), int division
AlarmValue(f) == TIMER_HZ \div (f * SAMPLES)

\* what 1000000 / 0 may yield when it does not trap
DivByZeroResults == {-1, 0, 1}

\* (mutant) the ratchet period with the level not halved
RatchetPeriodNoHalf(c) == 1000 \div (RATCHET_BASE_HZ * c)

\* onTimer: int ratchetPeriod = 1000 / (RATCHET_BASE_HZ * (choppiness / 2))
RatchetPeriod(c) == 1000 \div (RATCHET_BASE_HZ * (c \div 2))

\* (mutant) the product kept in 8 bits before the division
ScaledValue8Bit(t, v) == ((t * v) % UINT8) \div 255

\* onTimer: uint8_t scaledValue = (currentWaveform[currentSample] * volume) / 255
ScaledValue(t, v) == ((t * v) \div 255) % UINT8

\* (mutant) the phase advance without the wrap
NextSampleNoWrap(s) == s + 1

\* (mutant) the phase advance wrapping one entry early
NextSampleShort(s) == (s + 1) % (SAMPLES - 1)

\* onTimer: currentSample = (currentSample + 1) % SAMPLES
NextSample(s) == (s + 1) % SAMPLES

\* readEncoder: volume = (encoderValue * 255) / 100, stored in a uint8_t
VolumeOf(e) == ((e * 255) \div 100) % UINT8

\* constrain(x, lo, hi)
Constrain(x, lo, hi) == IF x < lo THEN lo ELSE IF x > hi THEN hi ELSE x

\* (mutant) a scan that keeps the last index whose pin reads HIGH
LastKey(K) == IF K = {} THEN -1 ELSE CHOOSE k \in K : \A j \in K : k >= j

\* scanKeyboard: the first index of the scan loop whose pin reads HIGH, -1 if none
FirstKey(K) == IF K = {} THEN -1 ELSE CHOOSE k \in K : \A j \in K : k <= j

\* the keys touched in the interleaving specifications (D#, G and A), and the
\* sets of them the stylus and fingers may touch at one scan
Keys == {3, 7, 9}
KeySets == {K \in SUBSET Keys : Cardinality(K) <= MaxHeld}

\* ------------------------------------------------------------ state
VARIABLES
  edition,            \* "basic" or "menu": which firmware runs
  pc,                 \* the foreground's next statement
  ret,                \* where the running playNote / stopNote returns to
  noteIndex,          \* playNote's argument
  freq,               \* playNote's local freq = setFrequency's argument
  millisRead,         \* the value millis() returned to the running playNote, -1 if none
  currentSample,      \* volatile int currentSample
  currentFreq,        \* volatile int currentFreq
  currentNote,        \* int currentNote
  volume,             \* volatile uint8_t volume
  currentWaveform,    \* volatile uint8_t *currentWaveform (the table it points to)
  selectedWaveform,   \* WaveType selectedWaveform
  isHighOctave,       \* bool isHighOctave
  choppiness,         \* int choppiness (menu)
  ratchetOn,          \* bool ratchetOn (menu)
  lastRatchetToggle,  \* unsigned long lastRatchetToggle (menu)
  currentMode,        \* UIMode currentMode (menu)
  currentMenu,        \* MenuScreen currentMenu (menu)
  encoderValue,       \* int encoderValue (menu) / int encoderPos (basic)
  timerPeriod,        \* the timer's alarm value, microseconds
  timerEnabled,       \* the timer's alarm enable bit
  dac,                \* the value last written by dac_output_voltage
  now,                \* millis()
  lastOp,             \* history: the operation that ran or returned last
  cycleStart,         \* history: phase when the tracked note started, -1 if none
  cycleTicks,         \* history: onTimer invocations since the tracked note started
  cycleEmitted,       \* history: how many of them emitted a table sample
  keysRead            \* history: the keys that read HIGH in the last scanKeyboard pass

progVars ==
  << edition, pc, ret, noteIndex, freq, millisRead, currentSample, currentFreq,
     currentNote, volume, currentWaveform, selectedWaveform, isHighOctave, choppiness,
     ratchetOn, lastRatchetToggle, currentMode, currentMenu, encoderValue,
     timerPeriod, timerEnabled, dac, now, lastOp >>

vars == << progVars, cycleStart, cycleTicks, cycleEmitted, keysRead >>

\* what the interrupt handler never writes
foregroundVars ==
  << edition, pc, ret, noteIndex, freq, millisRead, currentFreq, currentNote, volume,
     currentWaveform, selectedWaveform, isHighOctave, choppiness, currentMode,
     currentMenu, encoderValue, timerPeriod, timerEnabled, now >>

\* the foreground's locals and return address
callVars == << ret, noteIndex, freq, millisRead >>
\* the settings the user interface owns
uiVars == << currentMode, currentMenu, encoderValue, selectedWaveform >>
timerVars == << timerPeriod, timerEnabled >>
gateVars == << ratchetOn, lastRatchetToggle >>

NoTrack == UNCHANGED << cycleStart, cycleTicks, cycleEmitted, keysRead >>

\* loop(): its first statement
LoopTop == IF edition = "basic" THEN "loop_octave" ELSE "readEncoder"

\* the foreground is inside playNote / setFrequency / stopNote
InCall ==
  pc \in { "playNote", "setFrequency", "timerAlarmDisable", "timerAlarmWrite",
           "timerAlarmEnable", "playNote_note", "playNote_ratchetTime",
           "playNote_ratchetOn", "stopNote", "stopNote_note", "stopNote_dac" }

\* ------------------------------------------------------------ initial state
\* the globals' initialisers, at setup()'s "Set up timer" block
Init ==
  /\ edition \in {"basic", "menu"}
  /\ pc = "setup_timerAlarmWrite"
  /\ ret = "none"
  /\ noteIndex = -1
  /\ freq = 0
  /\ millisRead = -1
  /\ currentSample = 0
  /\ currentFreq = 0
  /\ currentNote = -1
  /\ volume = 128
  /\ currentWaveform = "SINE"
  /\ selectedWaveform = "SINE"
  /\ isHighOctave = FALSE
  /\ choppiness = 1
  /\ ratchetOn = TRUE
  /\ lastRatchetToggle = 0
  /\ currentMode = "REST"
  /\ currentMenu = "MENU_WAVEFORM"
  /\ encoderValue = 50
  /\ timerPeriod = 0
  /\ timerEnabled = FALSE
  /\ dac = 0
  /\ now = 0
  /\ lastOp = "none"
  /\ cycleStart = -1
  /\ cycleTicks = 0
  /\ cycleEmitted = 0
  /\ keysRead = {}

\* ------------------------------------------------------------ timer interrupt
\* (mutant) a ratchet block that closes the gate and never opens it again
GateAfterLatched ==
  IF choppiness > 1
    THEN IF now - lastRatchetToggle >= RatchetPeriod(choppiness)
           THEN FALSE
           ELSE ratchetOn
    ELSE TRUE

\* (mutant) a ratchet block without the else branch that opens the gate
GateAfterKept ==
  IF choppiness > 1 /\ now - lastRatchetToggle >= RatchetPeriod(choppiness)
    THEN ~ratchetOn
    ELSE ratchetOn

\* onTimer, menu edition: the gate flag after the ratchet block
GateAfter ==
  IF choppiness > 1
    THEN IF now - lastRatchetToggle >= RatchetPeriod(choppiness)
           THEN ~ratchetOn
           ELSE ratchetOn
    ELSE TRUE

\* (mutant) the emitting branch taken whatever the gate
AudibleNoGate == currentFreq > 0

\* onTimer: the branch that emits a table sample is taken
Audible ==
  IF edition = "menu" THEN currentFreq > 0 /\ GateAfter ELSE currentFreq > 0

\* void IRAM_ATTR onTimer(): one invocation, when the alarm is enabled
OnTimer ==
  /\ timerEnabled
  /\ IF edition = "menu"
       THEN /\ ratchetOn' = GateAfter
            /\ lastRatchetToggle' =
                 IF choppiness > 1 /\ now - lastRatchetToggle >= RatchetPeriod(choppiness)
                   THEN now
                   ELSE lastRatchetToggle
       ELSE UNCHANGED gateVars
  /\ IF Audible
       THEN /\ dac' = ScaledValue(TableAt(currentWaveform, currentSample), volume)
            /\ currentSample' = NextSample(currentSample)
       ELSE /\ dac' = 0
            /\ UNCHANGED currentSample
  /\ lastOp' = "onTimer"
  /\ UNCHANGED foregroundVars

\* millis() advances (the basic edition reads it only to debounce buttons,
\* which the model draws as an input)
ClockJump(d) ==
  /\ edition = "menu"
  /\ now + d <= MaxClock
  /\ now' = now + d
  /\ UNCHANGED << edition, pc, callVars, currentSample, currentFreq, currentNote,
                  volume, currentWaveform, isHighOctave, choppiness, gateVars,
                  uiVars, timerVars, dac, lastOp >>

\* the clock passes one ratchet period of choppiness level 8, 4 or 2
ClockAdvance ==
  \E d \in {RatchetPeriod(8), RatchetPeriod(4), RatchetPeriod(2)} : ClockJump(d)

\* ------------------------------------------------------------ setup
\* setup(): timerAlarmWrite(timer, 100, true)
SetupAlarmWrite ==
  /\ pc = "setup_timerAlarmWrite"
  /\ lastOp' = "step"
  /\ timerPeriod' = SETUP_ALARM
  /\ pc' = "setup_timerAlarmEnable"
  /\ UNCHANGED << edition, callVars, currentSample, currentFreq, currentNote,
                  volume, currentWaveform, isHighOctave, choppiness, gateVars,
                  uiVars, timerEnabled, dac, now >>

\* setup(): timerAlarmEnable(timer), then loop() starts
SetupAlarmEnable ==
  /\ pc = "setup_timerAlarmEnable"
  /\ lastOp' = "step"
  /\ timerEnabled' = TRUE
  /\ pc' = LoopTop
  /\ UNCHANGED << edition, callVars, currentSample, currentFreq, currentNote,
                  volume, currentWaveform, isHighOctave, choppiness, gateVars,
                  uiVars, timerPeriod, dac, now >>

\* ------------------------------------------------------------ playback engine
\* return from playNote / stopNote to the caller
Return(op) ==
  /\ lastOp' = op
  /\ pc' = ret
  /\ ret' = "none"
  /\ noteIndex' = -1
  /\ freq' = 0
  /\ millisRead' = -1

\* (mutant) playNote that clamps the index instead of rejecting it
PlayNoteEntryClamped ==
  /\ pc = "playNote"
  /\ lastOp' = "step"
  /\ freq' = ResolveFreq(Constrain(noteIndex, 0, NUM_KEYS - 1), isHighOctave)
  /\ pc' = "setFrequency"
  /\ UNCHANGED << edition, ret, noteIndex, millisRead, currentSample, currentFreq, currentNote,
                  volume, currentWaveform, isHighOctave, choppiness, gateVars,
                  uiVars, timerVars, dac, now >>

\* playNote: the index check and the frequency resolution
PlayNoteEntry ==
  /\ pc = "playNote"
  /\ lastOp' = "step"
  /\ IF noteIndex < 0 \/ noteIndex >= NUM_KEYS
       THEN /\ pc' = "stopNote"
            /\ UNCHANGED freq
       ELSE /\ freq' = ResolveFreq(noteIndex, isHighOctave)
            /\ pc' = "setFrequency"
  /\ UNCHANGED << edition, ret, noteIndex, millisRead, currentSample, currentFreq, currentNote,
                  volume, currentWaveform, isHighOctave, choppiness, gateVars,
                  uiVars, timerVars, dac, now >>

\* setFrequency: the guard, and currentFreq = (int)freq
SetFrequencyEntry ==
  /\ pc = "setFrequency"
  /\ lastOp' = "step"
  /\ IF freq <= 0
       THEN /\ currentFreq' = 0
            /\ pc' = "playNote_note"
       ELSE /\ currentFreq' = ToInt(freq)
            /\ pc' = "timerAlarmDisable"
  /\ UNCHANGED << edition, callVars, currentSample, currentNote,
                  volume, currentWaveform, isHighOctave, choppiness, gateVars,
                  uiVars, timerVars, dac, now >>

\* (mutant) setFrequency without the timerAlarmDisable call
TimerAlarmDisableSkipped ==
  /\ pc = "timerAlarmDisable"
  /\ lastOp' = "step"
  /\ pc' = "timerAlarmWrite"
  /\ UNCHANGED << edition, callVars, currentSample, currentFreq, currentNote,
                  volume, currentWaveform, isHighOctave, choppiness, gateVars,
                  uiVars, timerVars, dac, now >>

\* setFrequency: timerAlarmDisable(timer)
TimerAlarmDisable ==
  /\ pc = "timerAlarmDisable"
  /\ lastOp' = "step"
  /\ timerEnabled' = FALSE
  /\ pc' = "timerAlarmWrite"
  /\ UNCHANGED << edition, callVars, currentSample, currentFreq, currentNote,
                  volume, currentWaveform, isHighOctave, choppiness, gateVars,
                  uiVars, timerPeriod, dac, now >>

\* setFrequency: timerAlarmWrite(timer, 1000000 / (currentFreq * SAMPLES), true)
\* (an int division by zero is undefined: the processor raises the divide
\* exception and the firmware panics, or the division yields some value)
TimerAlarmWrite ==
  /\ pc = "timerAlarmWrite"
  /\ lastOp' = "step"
  /\ IF currentFreq * SAMPLES = 0
       THEN \/ /\ pc' = "panic"
               /\ UNCHANGED timerPeriod
            \/ /\ timerPeriod' \in DivByZeroResults
               /\ pc' = "timerAlarmEnable"
       ELSE /\ timerPeriod' = AlarmValue(currentFreq)
            /\ pc' = "timerAlarmEnable"
  /\ UNCHANGED << edition, callVars, currentSample, currentFreq, currentNote,
                  volume, currentWaveform, isHighOctave, choppiness, gateVars,
                  uiVars, timerEnabled, dac, now >>

\* setFrequency: timerAlarmEnable(timer), and the return to playNote
TimerAlarmEnable ==
  /\ pc = "timerAlarmEnable"
  /\ lastOp' = "step"
  /\ timerEnabled' = TRUE
  /\ pc' = "playNote_note"
  /\ UNCHANGED << edition, callVars, currentSample, currentFreq, currentNote,
                  volume, currentWaveform, isHighOctave, choppiness, gateVars,
                  uiVars, timerPeriod, dac, now >>

\* playNote: currentNote = noteIndex (the basic edition returns here)
PlayNoteSetNote ==
  /\ pc = "playNote_note"
  /\ currentNote' = noteIndex
  /\ IF edition = "menu"
       THEN /\ pc' = "playNote_ratchetTime"
            /\ lastOp' = "step"
            /\ UNCHANGED callVars
       ELSE Return("playNote")
  /\ UNCHANGED << edition, currentSample, currentFreq,
                  volume, currentWaveform, isHighOctave, choppiness, gateVars,
                  uiVars, timerVars, dac, now >>

\* playNote (menu): lastRatchetToggle = millis()
PlayNoteRatchetTime ==
  /\ pc = "playNote_ratchetTime"
  /\ lastOp' = "step"
  /\ millisRead' = now
  /\ lastRatchetToggle' = now
  /\ pc' = "playNote_ratchetOn"
  /\ UNCHANGED << edition, ret, noteIndex, freq, currentSample, currentFreq, currentNote,
                  volume, currentWaveform, isHighOctave, choppiness, ratchetOn,
                  uiVars, timerVars, dac, now >>

\* playNote (menu): ratchetOn = true, and the return
PlayNoteRatchetOn ==
  /\ pc = "playNote_ratchetOn"
  /\ ratchetOn' = TRUE
  /\ Return("playNote")
  /\ UNCHANGED << edition, currentSample, currentFreq, currentNote,
                  volume, currentWaveform, isHighOctave, choppiness, lastRatchetToggle,
                  uiVars, timerVars, dac, now >>

\* (mutant) stopNote that leaves currentFreq as it is
StopNoteFreqKept ==
  /\ pc = "stopNote"
  /\ lastOp' = "step"
  /\ pc' = "stopNote_note"
  /\ UNCHANGED << edition, callVars, currentSample, currentFreq, currentNote,
                  volume, currentWaveform, isHighOctave, choppiness, gateVars,
                  uiVars, timerVars, dac, now >>

\* stopNote: currentFreq = 0
StopNoteFreq ==
  /\ pc = "stopNote"
  /\ lastOp' = "step"
  /\ currentFreq' = 0
  /\ pc' = "stopNote_note"
  /\ UNCHANGED << edition, callVars, currentSample, currentNote,
                  volume, currentWaveform, isHighOctave, choppiness, gateVars,
                  uiVars, timerVars, dac, now >>

\* (mutant) stopNote that leaves currentNote as it is
StopNoteNoteKept ==
  /\ pc = "stopNote_note"
  /\ lastOp' = "step"
  /\ pc' = "stopNote_dac"
  /\ UNCHANGED << edition, callVars, currentSample, currentFreq, currentNote,
                  volume, currentWaveform, isHighOctave, choppiness, gateVars,
                  uiVars, timerVars, dac, now >>

\* stopNote: currentNote = -1
StopNoteNote ==
  /\ pc = "stopNote_note"
  /\ lastOp' = "step"
  /\ currentNote' = -1
  /\ pc' = "stopNote_dac"
  /\ UNCHANGED << edition, callVars, currentSample, currentFreq,
                  volume, currentWaveform, isHighOctave, choppiness, gateVars,
                  uiVars, timerVars, dac, now >>

\* (mutant) stopNote that also rewinds the phase
StopNoteDacRewind ==
  /\ pc = "stopNote_dac"
  /\ dac' = 0
  /\ currentSample' = 0
  /\ Return("stopNote")
  /\ UNCHANGED << edition, currentFreq, currentNote,
                  volume, currentWaveform, isHighOctave, choppiness, gateVars,
                  uiVars, timerVars, now >>

\* stopNote: dac_output_voltage(DAC_PIN, 0), and the return
StopNoteDac ==
  /\ pc = "stopNote_dac"
  /\ dac' = 0
  /\ Return("stopNote")
  /\ UNCHANGED << edition, currentSample, currentFreq, currentNote,
                  volume, currentWaveform, isHighOctave, choppiness, gateVars,
                  uiVars, timerVars, now >>

\* the statements of playNote, setFrequency and stopNote
CallStep ==
  \/ PlayNoteEntry
  \/ SetFrequencyEntry
  \/ TimerAlarmDisable
  \/ TimerAlarmWrite
  \/ TimerAlarmEnable
  \/ PlayNoteSetNote
  \/ PlayNoteRatchetTime
  \/ PlayNoteRatchetOn
  \/ StopNoteFreq
  \/ StopNoteNote
  \/ StopNoteDac

\* ------------------------------------------------------------ foreground loop
\* the frame of a loop statement that starts no call
LoopFrame ==
  /\ lastOp' = "step"
  /\ UNCHANGED << edition, callVars, currentSample, currentFreq, currentNote,
                  gateVars, timerVars, dac, now >>

\* call playNote(i) / stopNote() from the loop, to return to statement r
Call(target, i, r) ==
  /\ pc' = target
  /\ noteIndex' = i
  /\ ret' = r
  /\ UNCHANGED << freq, millisRead >>

\* loop() (basic): isHighOctave = (digitalRead(OCTAVE_SWITCH) == LOW)
ReadOctaveSwitch ==
  /\ edition = "basic"
  /\ pc = "loop_octave"
  /\ \E sw \in BOOLEAN : isHighOctave' = sw
  /\ pc' = "readEncoder"
  /\ UNCHANGED << volume, currentWaveform, choppiness, uiVars >>
  /\ LoopFrame

\* the statement of loop() after readEncoder()
AfterEncoder == IF edition = "basic" THEN "readWaveformButtons" ELSE "readEncoderButton"

\* readEncoder: no falling edge on CLK
ReadEncoderIdle ==
  /\ pc = "readEncoder"
  /\ pc' = AfterEncoder
  /\ UNCHANGED << volume, currentWaveform, isHighOctave, choppiness, uiVars >>
  /\ LoopFrame

\* readEncoder: the encoder position after one detent in direction d
EncoderStep(d) ==
  IF edition = "basic"
    THEN Constrain(encoderValue + d, 0, 100)
    ELSE Constrain(encoderValue + d * 5, 0, 100)

\* the dial stays within MaxDial detents of its power-on position
DialInBounds(e) ==
  LET step == IF edition = "basic" THEN 1 ELSE 5
  IN  e - 50 <= MaxDial * step /\ 50 - e <= MaxDial * step

\* readEncoder: a detent that adjusts the volume (basic: always; menu: in REST)
ReadEncoderVolume ==
  /\ pc = "readEncoder"
  /\ edition = "menu" => currentMode = "REST"
  /\ \E d \in {1, -1} :
       /\ DialInBounds(EncoderStep(d))
       /\ encoderValue' = EncoderStep(d)
       /\ volume' = VolumeOf(EncoderStep(d))
  /\ pc' = AfterEncoder
  /\ UNCHANGED << currentWaveform, selectedWaveform, isHighOctave, choppiness,
                  currentMode, currentMenu >>
  /\ LoopFrame

\* MenuScreen as its enum value
MenuValue(m) ==
  CASE m = "MENU_WAVEFORM" -> 0 [] m = "MENU_OCTAVE" -> 1 [] m = "MENU_CHOPPINESS" -> 2

MenuOf(n) ==
  CASE n = 0 -> "MENU_WAVEFORM" [] n = 1 -> "MENU_OCTAVE" [] n = 2 -> "MENU_CHOPPINESS"

\* WaveType as its enum value
WaveValue(w) == CASE w = "SQUARE" -> 0 [] w = "TRIANGLE" -> 1 [] w = "SINE" -> 2

WaveOf(n) == CASE n = 0 -> "SQUARE" [] n = 1 -> "TRIANGLE" [] n = 2 -> "SINE"

\* readEncoder (menu), MENU_BROWSE: cycle through the menu screens
ReadEncoderBrowse ==
  /\ edition = "menu"
  /\ pc = "readEncoder"
  /\ currentMode = "MENU_BROWSE"
  /\ \E d \in {1, -1} :
       currentMenu' = IF d > 0 THEN MenuOf((MenuValue(currentMenu) + 1) % 3)
                               ELSE MenuOf((MenuValue(currentMenu) + 2) % 3)
  /\ pc' = AfterEncoder
  /\ UNCHANGED << volume, currentWaveform, selectedWaveform, isHighOctave, choppiness,
                  currentMode, encoderValue >>
  /\ LoopFrame

\* adjustCurrentSetting, MENU_WAVEFORM: cycle the waveform, update the pointer
AdjustWaveform ==
  /\ edition = "menu"
  /\ pc = "readEncoder"
  /\ currentMode = "SETTING_ADJUST"
  /\ currentMenu = "MENU_WAVEFORM"
  /\ \E d \in {1, -1} :
       LET w == IF d > 0 THEN WaveOf((WaveValue(selectedWaveform) + 1) % 3)
                         ELSE WaveOf((WaveValue(selectedWaveform) + 2) % 3)
       IN  /\ selectedWaveform' = w
           /\ currentWaveform' = w
  /\ pc' = AfterEncoder
  /\ UNCHANGED << volume, isHighOctave, choppiness, currentMode, currentMenu,
                  encoderValue >>
  /\ LoopFrame

\* adjustCurrentSetting, MENU_OCTAVE: toggle, and playNote(currentNote) if playing
AdjustOctave ==
  /\ edition = "menu"
  /\ pc = "readEncoder"
  /\ currentMode = "SETTING_ADJUST"
  /\ currentMenu = "MENU_OCTAVE"
  /\ isHighOctave' = ~isHighOctave
  /\ lastOp' = "step"
  /\ IF currentNote # -1
       THEN Call("playNote", currentNote, AfterEncoder)
       ELSE /\ pc' = AfterEncoder
            /\ UNCHANGED callVars
  /\ UNCHANGED << edition, currentSample, currentFreq, currentNote, volume,
                  currentWaveform, choppiness, gateVars, uiVars, timerVars, dac, now >>

\* (mutant) the level doubled or halved without the wrap at the ends
ChoppinessStepNoWrap(c, d) == IF d > 0 THEN c * 2 ELSE c \div 2

\* adjustCurrentSetting, MENU_CHOPPINESS: the level after a detent in direction d
ChoppinessStep(c, d) ==
  IF d > 0 THEN (IF c >= 8 THEN 1 ELSE c * 2)
           ELSE (IF c <= 1 THEN 8 ELSE c \div 2)

\* adjustCurrentSetting, MENU_CHOPPINESS
AdjustChoppiness ==
  /\ edition = "menu"
  /\ pc = "readEncoder"
  /\ currentMode = "SETTING_ADJUST"
  /\ currentMenu = "MENU_CHOPPINESS"
  /\ \E d \in {1, -1} : choppiness' = ChoppinessStep(choppiness, d)
  /\ pc' = AfterEncoder
  /\ UNCHANGED << volume, currentWaveform, isHighOctave, uiVars >>
  /\ LoopFrame

\* readEncoderButton: no accepted press
ReadEncoderButtonIdle ==
  /\ pc = "readEncoderButton"
  /\ pc' = "scanKeyboard"
  /\ UNCHANGED << volume, currentWaveform, isHighOctave, choppiness, uiVars >>
  /\ LoopFrame

\* (mutant) handleButtonPress that enters the menu on the screen last shown
HandleButtonPressKeepScreen ==
  /\ pc = "readEncoderButton"
  /\ CASE currentMode = "REST" ->
            /\ currentMode' = "MENU_BROWSE"
            /\ UNCHANGED << currentMenu, encoderValue >>
       [] currentMode = "MENU_BROWSE" ->
            /\ currentMode' = "SETTING_ADJUST"
            /\ UNCHANGED << currentMenu, encoderValue >>
       [] currentMode = "SETTING_ADJUST" ->
            /\ currentMode' = "REST"
            /\ encoderValue' = (volume * 100) \div 255
            /\ UNCHANGED currentMenu
  /\ pc' = "scanKeyboard"
  /\ UNCHANGED << volume, currentWaveform, selectedWaveform, isHighOctave, choppiness >>
  /\ LoopFrame

\* readEncoderButton: a debounced press, handleButtonPress()
HandleButtonPress ==
  /\ pc = "readEncoderButton"
  /\ CASE currentMode = "REST" ->
            /\ currentMode' = "MENU_BROWSE"
            /\ currentMenu' = "MENU_WAVEFORM"
            /\ UNCHANGED encoderValue
       [] currentMode = "MENU_BROWSE" ->
            /\ currentMode' = "SETTING_ADJUST"
            /\ UNCHANGED << currentMenu, encoderValue >>
       [] currentMode = "SETTING_ADJUST" ->
            /\ currentMode' = "REST"
            /\ encoderValue' = (volume * 100) \div 255
            /\ UNCHANGED currentMenu
  /\ pc' = "scanKeyboard"
  /\ UNCHANGED << volume, currentWaveform, selectedWaveform, isHighOctave, choppiness >>
  /\ LoopFrame

\* readWaveformButtons (basic): no debounced button is down
ReadWaveformButtonsIdle ==
  /\ pc = "readWaveformButtons"
  /\ pc' = "scanKeyboard"
  /\ UNCHANGED << volume, currentWaveform, isHighOctave, choppiness, uiVars >>
  /\ LoopFrame

\* readWaveformButtons (basic): the buttons in B are down; setWaveform runs for
\* each in the order square, triangle, sine, so the last one in that order stays
ReadWaveformButtons ==
  /\ pc = "readWaveformButtons"
  /\ \E B \in (SUBSET {0, 1, 2}) \ {{}} :
       LET w == WaveOf(CHOOSE n \in B : \A m \in B : m <= n)
       IN  /\ selectedWaveform' = w
           /\ currentWaveform' = w
  /\ pc' = "scanKeyboard"
  /\ UNCHANGED << volume, isHighOctave, choppiness, currentMode, currentMenu,
                  encoderValue >>
  /\ LoopFrame

\* (mutant) a scan that calls playNote for the first active key on every pass
ScanKeysAlways(K) ==
  /\ pc = "scanKeyboard"
  /\ lastOp' = "step"
  /\ LET first == FirstKey(K)
     IN  IF first # -1
           THEN Call("playNote", first, LoopTop)
           ELSE IF currentNote # -1
                  THEN Call("stopNote", -1, LoopTop)
                  ELSE /\ pc' = LoopTop
                       /\ UNCHANGED callVars
  /\ UNCHANGED << edition, currentSample, currentFreq, currentNote, volume,
                  currentWaveform, isHighOctave, choppiness, gateVars, uiVars,
                  timerVars, dac, now >>

\* scanKeyboard, with the keys of K reading HIGH
ScanKeys(K) ==
  /\ pc = "scanKeyboard"
  /\ lastOp' = "step"
  /\ LET first == FirstKey(K)
     IN  IF first # -1
           THEN IF currentNote # first
                  THEN Call("playNote", first, LoopTop)
                  ELSE /\ pc' = LoopTop
                       /\ UNCHANGED callVars
           ELSE IF currentNote # -1
                  THEN Call("stopNote", -1, LoopTop)
                  ELSE /\ pc' = LoopTop
                       /\ UNCHANGED callVars
  /\ UNCHANGED << edition, currentSample, currentFreq, currentNote, volume,
                  currentWaveform, isHighOctave, choppiness, gateVars, uiVars,
                  timerVars, dac, now >>

\* scanKeyboard: one pass of loop()
ScanKeyboard == \E K \in KeySets : ScanKeys(K)

\* ------------------------------------------------------------ specifications
\* the timer interrupt, followed over the first MaxPhase phase advances
OnTimerCapped == OnTimer /\ currentSample' <= MaxPhase

\* Power-on behaviour of both editions: setup, then the loop with the keyboard
\* (and, basic edition, the octave switch) as the only inputs in use.
Next ==
  \/ SetupAlarmWrite /\ NoTrack
  \/ SetupAlarmEnable /\ NoTrack
  \/ CallStep /\ NoTrack
  \/ ReadOctaveSwitch /\ NoTrack
  \/ ReadEncoderIdle /\ NoTrack
  \/ ReadEncoderButtonIdle /\ NoTrack
  \/ ReadWaveformButtonsIdle /\ NoTrack
  \/ ScanKeyboard /\ NoTrack
  \/ OnTimer /\ NoTrack

Spec == Init /\ [][Next]_vars

\* Either edition at the top of loop() with no note sounding, after the user has
\* moved through the settings: (menu) any choppiness level, the gate in either
\* phase when the ratchet runs, the dial in volume mode or in one of the three
\* setting screens.
InitSettings ==
  /\ edition \in {"basic", "menu"}
  /\ pc = LoopTop
  /\ ret = "none"
  /\ noteIndex = -1
  /\ freq = 0
  /\ millisRead = -1
  /\ currentSample = 0
  /\ currentFreq = 0
  /\ currentNote = -1
  /\ volume = 128
  /\ currentWaveform = "SINE"
  /\ selectedWaveform = "SINE"
  /\ isHighOctave = FALSE
  /\ choppiness \in (IF edition = "menu" THEN {1, 2, 4, 8} ELSE {1})
  /\ ratchetOn \in (IF choppiness > 1 THEN BOOLEAN ELSE {TRUE})
  /\ lastRatchetToggle = 0
  /\ \E m \in (IF edition = "menu"
                 THEN { << "REST", "MENU_CHOPPINESS" >>,
                        << "SETTING_ADJUST", "MENU_WAVEFORM" >>,
                        << "SETTING_ADJUST", "MENU_OCTAVE" >>,
                        << "SETTING_ADJUST", "MENU_CHOPPINESS" >> }
                 ELSE { << "REST", "MENU_WAVEFORM" >> }) :
       /\ currentMode = m[1]
       /\ currentMenu = m[2]
  /\ encoderValue = 50
  /\ timerPeriod = SETUP_ALARM
  /\ timerEnabled = TRUE
  /\ dac = 0
  /\ now = 0
  /\ lastOp = "none"
  /\ cycleStart = -1
  /\ cycleTicks = 0
  /\ cycleEmitted = 0
  /\ keysRead = {}

\* Both editions with the dial, the switch, the waveform buttons and the
\* keyboard in use (the menu mode stays as the button left it).
NextSettings ==
  \/ CallStep /\ NoTrack
  \/ ReadOctaveSwitch /\ NoTrack
  \/ ReadEncoderIdle /\ NoTrack
  \/ ReadEncoderVolume /\ NoTrack
  \/ AdjustWaveform /\ NoTrack
  \/ AdjustOctave /\ NoTrack
  \/ AdjustChoppiness /\ NoTrack
  \/ ReadEncoderButtonIdle /\ NoTrack
  \/ ReadWaveformButtonsIdle /\ NoTrack
  \/ ReadWaveformButtons /\ NoTrack
  \/ ScanKeyboard /\ NoTrack
  \/ OnTimerCapped /\ NoTrack
  \/ ClockAdvance /\ NoTrack

SpecSettings == InitSettings /\ [][NextSettings]_vars

\* Either edition at the top of loop(), silent, the ratchet off; the menu
\* edition's dial is on the octave screen.
InitNote ==
  /\ edition \in {"basic", "menu"}
  /\ pc = LoopTop
  /\ ret = "none"
  /\ noteIndex = -1
  /\ freq = 0
  /\ millisRead = -1
  /\ currentSample = 0
  /\ currentFreq = 0
  /\ currentNote = -1
  /\ volume = 128
  /\ currentWaveform = "SINE"
  /\ selectedWaveform = "SINE"
  /\ isHighOctave = FALSE
  /\ choppiness = 1
  /\ ratchetOn = TRUE
  /\ lastRatchetToggle = 0
  /\ currentMode = (IF edition = "menu" THEN "SETTING_ADJUST" ELSE "REST")
  /\ currentMenu = (IF edition = "menu" THEN "MENU_OCTAVE" ELSE "MENU_WAVEFORM")
  /\ encoderValue = 50
  /\ timerPeriod = SETUP_ALARM
  /\ timerEnabled = TRUE
  /\ dac = 0
  /\ now = 0
  /\ lastOp = "none"
  /\ cycleStart = -1
  /\ cycleTicks = 0
  /\ cycleEmitted = 0
  /\ keysRead = {}

\* scanKeyboard: one pass with no key or any one of the twelve keys touched
ScanOneKey == \E K \in {{}} \cup {{k} : k \in 0..(NUM_KEYS - 1)} : ScanKeys(K)

\* Every key of the keyboard in either octave, with the octave changed while
\* notes sound.
NextNote ==
  \/ CallStep /\ NoTrack
  \/ ReadOctaveSwitch /\ NoTrack
  \/ ReadEncoderIdle /\ NoTrack
  \/ AdjustOctave /\ NoTrack
  \/ ReadEncoderButtonIdle /\ NoTrack
  \/ ReadWaveformButtonsIdle /\ NoTrack
  \/ ScanOneKey /\ NoTrack
  \/ OnTimerCapped /\ NoTrack

SpecNote == InitNote /\ [][NextNote]_vars

\* Either edition at the top of loop(), silent, in volume mode; the menu
\* edition's ratchet is off (level 1) or at its slowest (level 2).
InitCycle ==
  /\ edition \in {"basic", "menu"}
  /\ pc = LoopTop
  /\ ret = "none"
  /\ noteIndex = -1
  /\ freq = 0
  /\ millisRead = -1
  /\ currentSample = 0
  /\ currentFreq = 0
  /\ currentNote = -1
  /\ volume = 128
  /\ currentWaveform = "SINE"
  /\ selectedWaveform = "SINE"
  /\ isHighOctave = FALSE
  /\ choppiness \in (IF edition = "menu" THEN {1, 2} ELSE {1})
  /\ ratchetOn = TRUE
  /\ lastRatchetToggle = 0
  /\ currentMode = "REST"
  /\ currentMenu = "MENU_WAVEFORM"
  /\ encoderValue = 50
  /\ timerPeriod = SETUP_ALARM
  /\ timerEnabled = TRUE
  /\ dac = 0
  /\ now = 0
  /\ lastOp = "none"
  /\ cycleStart = -1
  /\ cycleTicks = 0
  /\ cycleEmitted = 0
  /\ keysRead = {}

\* history: a foreground statement ran; the return of playNote starts a run of
\* onTimer invocations to follow, any other statement ends the run
TrackForeground ==
  /\ cycleStart' = (IF lastOp' = "playNote" THEN currentSample' ELSE -1)
  /\ cycleTicks' = 0
  /\ cycleEmitted' = 0
  /\ UNCHANGED keysRead

\* history: onTimer ran; the run is followed for SAMPLES invocations
TrackTick ==
  /\ UNCHANGED keysRead
  /\ IF cycleStart # -1 /\ cycleTicks < SAMPLES
       THEN /\ cycleTicks' = cycleTicks + 1
            /\ cycleEmitted' = (IF Audible THEN cycleEmitted + 1 ELSE cycleEmitted)
            /\ UNCHANGED cycleStart
       ELSE /\ cycleStart' = -1
            /\ cycleTicks' = 0
            /\ cycleEmitted' = 0

\* scanKeyboard: one pass with no key or the A key touched
ScanKeyA == \E K \in {{}, {9}} : ScanKeys(K)

\* A note started and released again and again, with the invocations of onTimer
\* counted from each return of playNote; the clock passes the ratchet period of
\* level 2.
NextCycle ==
  \/ CallStep /\ TrackForeground
  \/ ReadOctaveSwitch /\ TrackForeground
  \/ ReadEncoderIdle /\ TrackForeground
  \/ ReadEncoderButtonIdle /\ TrackForeground
  \/ ReadWaveformButtonsIdle /\ TrackForeground
  \/ ScanKeyA /\ TrackForeground
  \/ OnTimer /\ TrackTick
  \/ /\ cycleStart = -1 \/ cycleTicks % ClockStride = 0
     /\ ClockJump(RatchetPeriod(2))
     /\ NoTrack

SpecCycle == InitCycle /\ [][NextCycle]_vars

\* setFrequency called on its own: the frequencies a caller may pass, in
\* hundredths of a hertz: negative, zero, between 0 and 1 Hz, just above 1 Hz,
\* and the twelve reference frequencies in both octaves
FreqInputs ==
  {-44000, -1, 0, 1, 50, 99, 100, 150}
    \cup {ResolveFreq(i, h) : i \in 0..(NUM_KEYS - 1), h \in BOOLEAN}

\* a call setFrequency(f) made after the previous one has returned
SetFrequencyCall ==
  /\ pc = "playNote_note"
  /\ lastOp' = "step"
  /\ \E f \in FreqInputs : freq' = f
  /\ pc' = "setFrequency"
  /\ UNCHANGED << edition, ret, noteIndex, millisRead, currentSample, currentFreq,
                  currentNote, volume, currentWaveform, isHighOctave, choppiness,
                  gateVars, uiVars, timerVars, dac, now >>

\* Either edition after setup, at a call setFrequency(f).
InitSetFrequency ==
  /\ edition \in {"basic", "menu"}
  /\ pc = "setFrequency"
  /\ ret = "none"
  /\ noteIndex = -1
  /\ freq \in FreqInputs
  /\ millisRead = -1
  /\ currentSample = 0
  /\ currentFreq = 0
  /\ currentNote = -1
  /\ volume = 128
  /\ currentWaveform = "SINE"
  /\ selectedWaveform = "SINE"
  /\ isHighOctave = FALSE
  /\ choppiness = 1
  /\ ratchetOn = TRUE
  /\ lastRatchetToggle = 0
  /\ currentMode = "REST"
  /\ currentMenu = "MENU_WAVEFORM"
  /\ encoderValue = 50
  /\ timerPeriod = SETUP_ALARM
  /\ timerEnabled = TRUE
  /\ dac = 0
  /\ now = 0
  /\ lastOp = "none"
  /\ cycleStart = -1
  /\ cycleTicks = 0
  /\ cycleEmitted = 0
  /\ keysRead = {}

\* Calls of setFrequency one after the other, the timer interrupt running.
NextSetFrequency ==
  \/ SetFrequencyEntry /\ NoTrack
  \/ TimerAlarmDisable /\ NoTrack
  \/ TimerAlarmWrite /\ NoTrack
  \/ TimerAlarmEnable /\ NoTrack
  \/ SetFrequencyCall /\ NoTrack
  \/ OnTimerCapped /\ NoTrack

SpecSetFrequency == InitSetFrequency /\ [][NextSetFrequency]_vars

\* the indices a caller may pass to playNote: outside the keyboard on both
\* sides, and two keys
IndexInputs == {-2, -1, 3, 9, NUM_KEYS, NUM_KEYS + 1}

\* a call playNote(i) or stopNote() made where scanKeyboard makes its calls
PlaybackCall ==
  /\ pc = "scanKeyboard"
  /\ lastOp' = "step"
  /\ \/ \E i \in IndexInputs : Call("playNote", i, LoopTop)
     \/ Call("stopNote", -1, LoopTop)
  /\ UNCHANGED << edition, currentSample, currentFreq, currentNote, volume,
                  currentWaveform, isHighOctave, choppiness, gateVars, uiVars,
                  timerVars, dac, now >>

\* Either edition at the top of loop(), silent; the menu edition's ratchet is
\* off or at its fastest.
InitPlayback ==
  /\ edition \in {"basic", "menu"}
  /\ pc = LoopTop
  /\ ret = "none"
  /\ noteIndex = -1
  /\ freq = 0
  /\ millisRead = -1
  /\ currentSample = 0
  /\ currentFreq = 0
  /\ currentNote = -1
  /\ volume = 128
  /\ currentWaveform = "SINE"
  /\ selectedWaveform = "SINE"
  /\ isHighOctave = FALSE
  /\ choppiness \in (IF edition = "menu" THEN {1, 8} ELSE {1})
  /\ ratchetOn = TRUE
  /\ lastRatchetToggle = 0
  /\ currentMode = "REST"
  /\ currentMenu = "MENU_WAVEFORM"
  /\ encoderValue = 50
  /\ timerPeriod = SETUP_ALARM
  /\ timerEnabled = TRUE
  /\ dac = 0
  /\ now = 0
  /\ lastOp = "none"
  /\ cycleStart = -1
  /\ cycleTicks = 0
  /\ cycleEmitted = 0
  /\ keysRead = {}

\* The playback engine called with any index, valid or not, once per pass of
\* loop(), the timer interrupt and the clock running.
NextPlayback ==
  \/ CallStep /\ NoTrack
  \/ ReadOctaveSwitch /\ NoTrack
  \/ ReadEncoderIdle /\ NoTrack
  \/ ReadEncoderButtonIdle /\ NoTrack
  \/ ReadWaveformButtonsIdle /\ NoTrack
  \/ PlaybackCall /\ NoTrack
  \/ OnTimerCapped /\ NoTrack
  \/ ClockAdvance /\ NoTrack

SpecPlayback == InitPlayback /\ [][NextPlayback]_vars

\* history: scanKeyboard ran with the keys of K reading HIGH
TrackScan ==
  \E K \in KeySets :
    /\ ScanKeys(K)
    /\ keysRead' = K
    /\ UNCHANGED << cycleStart, cycleTicks, cycleEmitted >>

\* Either edition at the top of loop(), silent; the menu edition's dial is on
\* the octave screen.
InitKeyboard == InitNote

\* Up to MaxHeld keys touched at once, pass after pass, with the octave changed
\* while notes sound.
NextKeyboard ==
  \/ CallStep /\ NoTrack
  \/ ReadOctaveSwitch /\ NoTrack
  \/ ReadEncoderIdle /\ NoTrack
  \/ AdjustOctave /\ NoTrack
  \/ ReadEncoderButtonIdle /\ NoTrack
  \/ ReadWaveformButtonsIdle /\ NoTrack
  \/ TrackScan
  \/ OnTimerCapped /\ NoTrack

SpecKeyboard == InitKeyboard /\ [][NextKeyboard]_vars

\* The menu edition when setup() has returned: the power-on settings.
InitUI ==
  /\ edition = "menu"
  /\ pc = "readEncoder"
  /\ ret = "none"
  /\ noteIndex = -1
  /\ freq = 0
  /\ millisRead = -1
  /\ currentSample = 0
  /\ currentFreq = 0
  /\ currentNote = -1
  /\ volume = 128
  /\ currentWaveform = "SINE"
  /\ selectedWaveform = "SINE"
  /\ isHighOctave = FALSE
  /\ choppiness = 1
  /\ ratchetOn = TRUE
  /\ lastRatchetToggle = 0
  /\ currentMode = "REST"
  /\ currentMenu = "MENU_WAVEFORM"
  /\ encoderValue = 50
  /\ timerPeriod = SETUP_ALARM
  /\ timerEnabled = TRUE
  /\ dac = 0
  /\ now = 0
  /\ lastOp = "none"
  /\ cycleStart = -1
  /\ cycleTicks = 0
  /\ cycleEmitted = 0
  /\ keysRead = {}

\* The menu edition driven through its user interface from power-on: the dial
\* and its button in every mode, and the A key.  This is the foreground alone:
\* the timer interrupt, which writes none of the settings, is interleaved with
\* the same operations in SpecSettings.
NextUI ==
  \/ CallStep /\ NoTrack
  \/ ReadEncoderIdle /\ NoTrack
  \/ ReadEncoderVolume /\ NoTrack
  \/ ReadEncoderBrowse /\ NoTrack
  \/ AdjustWaveform /\ NoTrack
  \/ AdjustOctave /\ NoTrack
  \/ AdjustChoppiness /\ NoTrack
  \/ ReadEncoderButtonIdle /\ NoTrack
  \/ HandleButtonPress /\ NoTrack
  \/ ScanKeyA /\ NoTrack

SpecUI == InitUI /\ [][NextUI]_vars

\* Either edition with A4 sounding, at any volume a uint8_t holds and with any
\* of the three tables selected.
InitVolume ==
  /\ edition \in {"basic", "menu"}
  /\ pc = LoopTop
  /\ ret = "none"
  /\ noteIndex = -1
  /\ freq = 0
  /\ millisRead = -1
  /\ currentSample = 0
  /\ currentFreq = ToInt(ResolveFreq(9, FALSE))
  /\ currentNote = 9
  /\ volume \in 0..(UINT8 - 1)
  /\ currentWaveform \in {"SQUARE", "TRIANGLE", "SINE"}
  /\ selectedWaveform = currentWaveform
  /\ isHighOctave = FALSE
  /\ choppiness = 1
  /\ ratchetOn = TRUE
  /\ lastRatchetToggle = 0
  /\ currentMode = "REST"
  /\ currentMenu = "MENU_WAVEFORM"
  /\ encoderValue = 50
  /\ timerPeriod = AlarmValue(currentFreq)
  /\ timerEnabled = TRUE
  /\ dac = 0
  /\ now = 0
  /\ lastOp = "none"
  /\ cycleStart = -1
  /\ cycleTicks = 0
  /\ cycleEmitted = 0
  /\ keysRead = {}

\* The timer interrupt walking the whole table while the note is held.
NextVolume == OnTimer /\ NoTrack

SpecVolume == InitVolume /\ [][NextVolume]_vars

\* Either edition at the top of loop(), silent; the menu edition's ratchet is
\* off or at its fastest.
InitScan == InitPlayback

\* Up to MaxHeld keys touched, held and released, pass after pass, with the
\* timer interrupt and the clock running (so the ratchet gate toggles while a
\* key is held).
NextScan ==
  \/ CallStep /\ NoTrack
  \/ ReadOctaveSwitch /\ NoTrack
  \/ ReadEncoderIdle /\ NoTrack
  \/ ReadEncoderButtonIdle /\ NoTrack
  \/ ReadWaveformButtonsIdle /\ NoTrack
  \/ TrackScan
  \/ OnTimerCapped /\ NoTrack
  \/ ClockAdvance /\ NoTrack

SpecScan == InitScan /\ [][NextScan]_vars

\* millis() advances without bound.  The code uses the clock only through the
\* difference now - lastRatchetToggle, so the clock is kept relative to the last
\* toggle, and a difference beyond MaxClock (which is beyond every ratchet
\* period) is kept as MaxClock.
ClockRun ==
  /\ edition = "menu"
  /\ \E d \in {RatchetPeriod(8), RatchetPeriod(4), RatchetPeriod(2)} :
       LET elapsed == now - lastRatchetToggle + d
       IN  now' = (IF elapsed > MaxClock THEN MaxClock ELSE elapsed)
  /\ lastRatchetToggle' = 0
  /\ UNCHANGED << edition, pc, callVars, currentSample, currentFreq, currentNote,
                  volume, currentWaveform, isHighOctave, choppiness, ratchetOn,
                  uiVars, timerVars, dac, lastOp >>

\* scanKeyboard: a pass with the A key still held
ScanHeldKey ==
  /\ ScanKeys({9})
  /\ keysRead' = {9}
  /\ UNCHANGED << cycleStart, cycleTicks, cycleEmitted >>

\* The menu edition with A4 held and the ratchet running at level 2, 4 or 8,
\* the gate in either phase.
InitRatchet ==
  /\ edition = "menu"
  /\ pc = "readEncoder"
  /\ ret = "none"
  /\ noteIndex = -1
  /\ freq = 0
  /\ millisRead = -1
  /\ currentSample = 0
  /\ currentFreq = ToInt(ResolveFreq(9, FALSE))
  /\ currentNote = 9
  /\ volume = 128
  /\ currentWaveform = "SINE"
  /\ selectedWaveform = "SINE"
  /\ isHighOctave = FALSE
  /\ choppiness \in {2, 4, 8}
  /\ ratchetOn \in BOOLEAN
  /\ lastRatchetToggle = 0
  /\ currentMode = "REST"
  /\ currentMenu = "MENU_WAVEFORM"
  /\ encoderValue = 50
  /\ timerPeriod = AlarmValue(currentFreq)
  /\ timerEnabled = TRUE
  /\ dac = 0
  /\ now = 0
  /\ lastOp = "none"
  /\ cycleStart = -1
  /\ cycleTicks = 0
  /\ cycleEmitted = 0
  /\ keysRead = {9}

\* The loop scanning the held key, the timer interrupt walking the table, and
\* the clock running on.
NextRatchet ==
  \/ ReadEncoderIdle /\ NoTrack
  \/ ReadEncoderButtonIdle /\ NoTrack
  \/ ScanHeldKey
  \/ OnTimer /\ NoTrack
  \/ ClockRun /\ NoTrack

\* The alarm is enabled and re-arms itself, so the timer interrupt keeps firing;
\* millis() is driven by the hardware clock, so it keeps advancing.
SpecRatchet ==
  /\ InitRatchet
  /\ [][NextRatchet]_vars
  /\ WF_vars(OnTimer /\ NoTrack)
  /\ WF_vars(ClockRun /\ NoTrack)

\* ------------------------------------------------------------ properties
\* the foreground is between the timer's disable and its enable
Reprogramming ==
  pc \in { "setup_timerAlarmWrite", "setup_timerAlarmEnable",
           "timerAlarmWrite", "timerAlarmEnable" }

\* C1 (Spec): once stopNote has returned and until a playNote call begins (no
\* note identity, no call in progress), every invocation of onTimer writes the
\* silence value 0 to the DAC and leaves currentSample where it is.
C1_SilenceAfterStop ==
  [][ (OnTimer /\ currentNote = -1 /\ ~InCall)
        => (dac' = 0 /\ currentSample' = currentSample) ]_vars

\* a note sounded (the phase moved), stopNote returned, and onTimer then ran
C1_Witness ==
  /\ lastOp = "onTimer"
  /\ currentNote = -1
  /\ ~InCall
  /\ currentSample > 0
  /\ dac = 0

\* C3 (Spec): in every reachable state 0 <= currentSample < SAMPLES.
C3_PhaseInBounds == currentSample \in 0..(SAMPLES - 1)

\* onTimer has just read the last entry of the table and wrapped the phase
C3_Witness ==
  /\ lastOp = "onTimer"
  /\ currentFreq > 0
  /\ currentSample = 0
  /\ dac = ((sineWave[SAMPLES] * volume) \div 255)

\* C6 (Spec), the claim as stated: while a note sounds and no playNote / stopNote
\* call is running, the target frequency and the timer period are the ones
\* resolved for the current octave flag.
C6_FreqFollowsOctave ==
  (currentNote # -1 /\ ~InCall) =>
     /\ currentFreq = (NOTE_FREQS_OCT4[currentNote + 1]
                         * (IF isHighOctave THEN 2 ELSE 1)) \div 100
     /\ timerPeriod = 1000000 \div (currentFreq * SAMPLES)

\* C9 (Spec): the alarm is enabled exactly when the foreground is not between a
\* disable and the matching enable (so: disable, write, enable in that order, and
\* enabled after setup and when setFrequency returns); the period changes only
\* while the alarm is disabled; onTimer never runs between disable and enable.
C9_PeriodWrittenDisabled ==
  /\ [](timerEnabled <=> ~Reprogramming)
  /\ [][ /\ (timerPeriod' # timerPeriod) => (~timerEnabled /\ ~timerEnabled')
         /\ OnTimer => ~Reprogramming ]_vars

\* setFrequency has written a new period and has not enabled the alarm yet
C9_Witness ==
  /\ pc = "timerAlarmEnable"
  /\ ~timerEnabled
  /\ currentFreq > 0
  /\ timerPeriod = 1000000 \div (currentFreq * SAMPLES)
  /\ timerPeriod # SETUP_ALARM

\* C10 (Spec), the claim as stated: whenever onTimer has run with a target
\* frequency f > 0, the programmed period is 1000000 / (f * SAMPLES).
C10_FreqPeriodAtomic ==
  (lastOp = "onTimer" /\ currentFreq > 0) =>
     timerPeriod = 1000000 \div (currentFreq * SAMPLES)

\* C2 (SpecSettings): an invocation of onTimer changes currentSample exactly when
\* it emits a table sample, that is when currentFreq > 0 and (menu edition) the
\* gate is open after that invocation's gate update; it then writes the scaled
\* entry at the phase it found and moves the phase to (currentSample + 1) mod
\* SAMPLES.  A silent invocation writes 0 and leaves the phase, and so does every
\* step that is not an invocation of onTimer, so the next audible invocation reads
\* the table where the last one left it.
C2_PhaseMovesIffEmitted ==
  [][ IF OnTimer
        THEN IF currentFreq > 0 /\ (edition = "menu" => ratchetOn')
               THEN /\ currentSample' = (currentSample + 1) % SAMPLES
                    /\ currentSample' # currentSample
                    /\ dac' = ((TableAt(currentWaveform, currentSample) * volume) \div 255)
               ELSE /\ currentSample' = currentSample
                    /\ dac' = 0
        ELSE currentSample' = currentSample ]_vars

\* a held note after audible invocations: onTimer has just run with the gate
\* closed, and the phase is where the audible invocations left it
C2_Witness ==
  /\ lastOp = "onTimer"
  /\ edition = "menu"
  /\ currentFreq > 0
  /\ ~ratchetOn
  /\ currentSample > 0
  /\ dac = 0

\* C4 (SpecCycle), the claim as stated: SAMPLES consecutive invocations of onTimer
\* after the return of playNote, with no foreground statement in between, leave
\* currentSample at the value it had at that return.
C4_FullCycleReturns == cycleTicks = SAMPLES => currentSample = cycleStart

\* C4 (SpecCycle), amended: SAMPLES consecutive invocations of onTimer after the
\* return of playNote that each emit a table sample, with no foreground statement
\* in between, leave currentSample at the value it had at that return; in general
\* the phase is ahead of that value by the number of emitting invocations.
C4_FullAudibleCycleReturns ==
  /\ (cycleTicks = SAMPLES /\ cycleEmitted = SAMPLES) => currentSample = cycleStart
  /\ cycleStart # -1 => currentSample = (cycleStart + cycleEmitted) % SAMPLES

\* a note started at phase 200 in the menu edition with the ratchet running, and
\* SAMPLES emitting invocations have followed
C4_Witness ==
  /\ cycleStart = 200
  /\ cycleTicks = SAMPLES
  /\ cycleEmitted = SAMPLES
  /\ edition = "menu"
  /\ choppiness = 2

\* the statement at which playNote returns with the note started
PlayNoteReturns ==
  /\ pc \in {"playNote_note", "playNote_ratchetOn"}
  /\ lastOp' = "playNote"

\* C5 (SpecNote), the claim as stated: when playNote(i), 0 <= i <= 11, returns,
\* currentNote = i, currentFreq equals the reference frequency of i (doubled when
\* the octave flag is high) and the period is 1000000 / (currentFreq * SAMPLES).
C5_FreqEqualsReference ==
  [][ PlayNoteReturns =>
        /\ currentNote' = noteIndex
        /\ currentFreq' * 100
             = NOTE_FREQS_OCT4[noteIndex + 1] * (IF isHighOctave' THEN 2 ELSE 1)
        /\ timerPeriod' = 1000000 \div (currentFreq' * SAMPLES) ]_vars

\* C5 (SpecNote), amended: when playNote(i), 0 <= i <= 11, returns, currentNote
\* = i, currentFreq is the integer part of the reference frequency of i (doubled
\* when the octave flag is high), the period is the integer quotient
\* 1000000 / (currentFreq * SAMPLES), and index 9 gives 440 (low) and 880 (high).
C5_FreqIsIntegerPart ==
  [][ PlayNoteReturns =>
        LET ref == NOTE_FREQS_OCT4[noteIndex + 1] * (IF isHighOctave' THEN 2 ELSE 1)
        IN  /\ noteIndex \in 0..11
            /\ currentNote' = noteIndex
            /\ currentFreq' * 100 <= ref
            /\ ref < (currentFreq' + 1) * 100
            /\ timerPeriod' * (currentFreq' * SAMPLES) <= 1000000
            /\ 1000000 < (timerPeriod' + 1) * (currentFreq' * SAMPLES)
            /\ noteIndex = 9 => currentFreq' = (IF isHighOctave' THEN 880 ELSE 440) ]_vars

\* playNote(9) has returned with the octave flag high
C5_Witness ==
  /\ lastOp = "playNote"
  /\ currentNote = 9
  /\ isHighOctave
  /\ currentFreq = 880
  /\ timerPeriod = 4

\* setFrequency runs in the playNote(currentNote) call of an octave change
OctaveRetrigger ==
  /\ SetFrequencyEntry
  /\ edition = "menu"
  /\ currentNote # -1
  /\ noteIndex = currentNote

\* C7 (SpecNote), the claim as stated: an octave change while a note sounds sets
\* currentFreq to exactly twice its prior value (low to high) or to exactly half
\* of it (high to low).
C7_ExactlyDoubleOrHalf ==
  [][ OctaveRetrigger =>
        IF isHighOctave THEN currentFreq' = 2 * currentFreq
                        ELSE 2 * currentFreq' = currentFreq ]_vars

\* C7 (SpecNote), amended: an octave change while a note sounds (menu edition)
\* sets currentFreq to the integer part of the doubled reference frequency, which
\* is twice its prior value or one more (low to high), or to the integer part of
\* the reference frequency, which is the integer half of its prior value (high to
\* low).
C7_DoubleOrHalfTruncated ==
  [][ OctaveRetrigger =>
        IF isHighOctave
          THEN /\ currentFreq' \in {2 * currentFreq, 2 * currentFreq + 1}
               /\ currentFreq' = (2 * NOTE_FREQS_OCT4[currentNote + 1]) \div 100
          ELSE /\ currentFreq' = currentFreq \div 2
               /\ currentFreq' = NOTE_FREQS_OCT4[currentNote + 1] \div 100 ]_vars

\* the octave went up while C4 sounded at 261: setFrequency has stored 523
C7_Witness ==
  /\ pc = "timerAlarmDisable"
  /\ edition = "menu"
  /\ noteIndex = 0
  /\ currentNote = 0
  /\ isHighOctave
  /\ currentFreq = 523

\* C8 (SpecSettings), the claim as stated: when playNote returns in the menu
\* edition, ratchetOn is true and lastRatchetToggle is the value millis()
\* returned in that call.
C8_GateResetAtReturn ==
  [][ PlayNoteRatchetOn => (ratchetOn' /\ lastRatchetToggle' = millisRead) ]_vars

\* C11 (SpecSetFrequency), the claim as stated: for every call setFrequency(f)
\* the division 1000000 / (currentFreq * SAMPLES) is evaluated only with
\* currentFreq > 0, the period written is positive, and an input that yields no
\* positive frequency stores currentFreq = 0 and returns with the period as it was.
C11_NoDivisionByNonPositive ==
  /\ pc = "timerAlarmWrite" => currentFreq > 0
  /\ pc = "timerAlarmEnable" => timerPeriod > 0

\* C12 (SpecPlayback): playNote(i) with i outside 0..11 does nothing but enter
\* stopNote, in the state it was called in (no table lookup, no frequency, no
\* period computed); the statements of stopNote leave the timer period, the
\* octave flag, the phase and the gate as they are, and stopNote returns with
\* currentFreq = 0, currentNote = -1 and 0 written to the DAC.
C12_InvalidIndexIsStopNote ==
  [][ /\ (pc = "playNote" /\ noteIndex \notin 0..11 /\ pc' # pc) =>
           /\ pc' = "stopNote"
           /\ UNCHANGED << freq, currentFreq, currentNote, dac, timerVars,
                           isHighOctave, currentSample, gateVars, volume,
                           currentWaveform, choppiness >>
      /\ (pc \in {"stopNote", "stopNote_note", "stopNote_dac"} /\ pc' # pc) =>
           /\ pc' \notin {"setFrequency", "timerAlarmDisable", "timerAlarmWrite",
                           "timerAlarmEnable"}
           /\ UNCHANGED << freq, timerVars, isHighOctave, currentSample, gateVars >>
      /\ (pc = "stopNote_dac" /\ pc' # pc) =>
           /\ lastOp' = "stopNote"
           /\ currentFreq' = 0
           /\ currentNote' = -1
           /\ dac' = 0 ]_vars

\* playNote(12) was called while a note sounded with the phase advanced, and
\* is about to return from stopNote
C12_Witness ==
  /\ pc = "stopNote_dac"
  /\ noteIndex = NUM_KEYS
  /\ currentFreq = 0
  /\ currentNote = -1
  /\ currentSample > 0
  /\ timerPeriod # SETUP_ALARM

\* C13 (SpecKeyboard): once a scanKeyboard pass that read a non-empty set of
\* keys HIGH is over (with the playNote call it made), currentNote is the
\* smallest index of that set, whatever note sounded before; currentNote is one
\* value of -1..11 in every state.
C13_LowestKeySounds ==
  /\ currentNote \in -1..(NUM_KEYS - 1)
  /\ (keysRead # {} /\ ~InCall) =>
        /\ currentNote \in keysRead
        /\ \A j \in keysRead : currentNote <= j

\* keys 3 and 7 read HIGH in one pass, and playNote has returned: note 3 sounds
C13_Witness ==
  /\ keysRead = {3, 7}
  /\ lastOp = "playNote"
  /\ currentNote = 3
  /\ currentFreq = 311

\* the level that follows c in the cycle 1, 2, 4, 8, 1
LevelUp(c) == CASE c = 1 -> 2 [] c = 2 -> 4 [] c = 4 -> 8 [] c = 8 -> 1

\* the level that follows c in the cycle 1, 8, 4, 2, 1
LevelDown(c) == CASE c = 1 -> 8 [] c = 8 -> 4 [] c = 4 -> 2 [] c = 2 -> 1

\* C14 (SpecUI): from power-on (choppiness = 1) the level is always one of 1, 2,
\* 4, 8; at every level reached an increment gives the next level of the cycle
\* 1, 2, 4, 8, 1 and a decrement the next of 1, 8, 4, 2, 1, and an increment
\* then a decrement, or the reverse, gives the level back; the level changes
\* only by a choppiness adjustment, to one of these two levels.
C14_ChoppinessCycle ==
  /\ [](/\ choppiness \in {1, 2, 4, 8}
        /\ ChoppinessStep(choppiness, 1) = LevelUp(choppiness)
        /\ ChoppinessStep(choppiness, -1) = LevelDown(choppiness)
        /\ ChoppinessStep(ChoppinessStep(choppiness, 1), -1) = choppiness
        /\ ChoppinessStep(ChoppinessStep(choppiness, -1), 1) = choppiness)
  /\ [][ /\ AdjustChoppiness => choppiness' \in {LevelUp(choppiness), LevelDown(choppiness)}
         /\ choppiness' # choppiness => AdjustChoppiness ]_vars

\* the dial, on the choppiness screen, has brought the level to 4
C14_Witness ==
  /\ currentMode = "SETTING_ADJUST"
  /\ currentMenu = "MENU_CHOPPINESS"
  /\ pc = "readEncoderButton"
  /\ choppiness = 4

\* C19 (SpecUI): the mode changes only along REST -> MENU_BROWSE ->
\* SETTING_ADJUST -> REST, at an accepted button press, and a press always
\* moves it; entering the menu selects the waveform screen; the volume changes
\* only in REST, the selected screen only in MENU_BROWSE (or on entering the
\* menu), and waveform, octave and choppiness only in SETTING_ADJUST, each only
\* on its own screen and with the other settings left alone.
C19_MenuFlow ==
  [][ /\ currentMode' # currentMode =>
           /\ << currentMode, currentMode' >> \in
                 { << "REST", "MENU_BROWSE" >>, << "MENU_BROWSE", "SETTING_ADJUST" >>,
                   << "SETTING_ADJUST", "REST" >> }
           /\ pc = "readEncoderButton"
           /\ currentMode' = "MENU_BROWSE" => currentMenu' = "MENU_WAVEFORM"
           /\ UNCHANGED << volume, selectedWaveform, currentWaveform, isHighOctave,
                           choppiness >>
      /\ HandleButtonPress => currentMode' # currentMode
      /\ volume' # volume =>
           /\ currentMode = "REST"
           /\ UNCHANGED << currentMode, currentMenu, selectedWaveform, currentWaveform,
                           isHighOctave, choppiness >>
      /\ (currentMenu' # currentMenu /\ currentMode' = currentMode) =>
           /\ currentMode = "MENU_BROWSE"
           /\ UNCHANGED << volume, selectedWaveform, currentWaveform, isHighOctave,
                           choppiness >>
      /\ << selectedWaveform, currentWaveform >>' # << selectedWaveform, currentWaveform >> =>
           /\ currentMode = "SETTING_ADJUST" /\ currentMenu = "MENU_WAVEFORM"
           /\ UNCHANGED << currentMode, currentMenu, volume, isHighOctave, choppiness >>
      /\ isHighOctave' # isHighOctave =>
           /\ currentMode = "SETTING_ADJUST" /\ currentMenu = "MENU_OCTAVE"
           /\ UNCHANGED << currentMode, currentMenu, volume, selectedWaveform,
                           currentWaveform, choppiness >>
      /\ choppiness' # choppiness =>
           /\ currentMode = "SETTING_ADJUST" /\ currentMenu = "MENU_CHOPPINESS"
           /\ UNCHANGED << currentMode, currentMenu, volume, selectedWaveform,
                           currentWaveform, isHighOctave >> ]_vars

\* back in REST after three rounds through the menu that changed the waveform,
\* the octave and the choppiness, with the volume changed in REST
C19_Witness ==
  /\ currentMode = "REST"
  /\ currentMenu = "MENU_CHOPPINESS"
  /\ selectedWaveform = "SQUARE"
  /\ isHighOctave
  /\ choppiness = 4
  /\ volume # 128

\* C15 (SpecSettings), the claim as stated: in the menu edition the gate is
\* open in every state in which the choppiness level is 1.
C15_GateOpenAtLevelOne == (edition = "menu" /\ choppiness = 1) => ratchetOn

\* C15 (SpecSettings), amended: every invocation of onTimer that runs with
\* choppiness = 1 leaves the gate open, whatever the gate was, and so emits a
\* table sample whenever currentFreq > 0; the gate is open in every state that
\* such an invocation has left.
C15_TickOpensGateAtLevelOne ==
  /\ []((edition = "menu" /\ choppiness = 1 /\ lastOp = "onTimer") => ratchetOn)
  /\ [][ (OnTimer /\ edition = "menu" /\ choppiness = 1) =>
           /\ ratchetOn'
           /\ currentFreq > 0 => currentSample' = (currentSample + 1) % SAMPLES ]_vars

\* the ratchet has run, the level is back at 1 and onTimer has run since
C15_Witness ==
  /\ edition = "menu"
  /\ choppiness = 1
  /\ lastOp = "onTimer"
  /\ lastRatchetToggle > 0
  /\ ratchetOn
  /\ currentFreq > 0
  /\ currentSample > 0

\* C16 (SpecSettings), the claim as stated: with choppiness c in {2, 4, 8} an
\* invocation of onTimer flips the gate and records the time exactly when the
\* time since the last toggle is at least 1000 / (8 * c / 2) ms (125, 62.5,
\* 31.25), that is when elapsed * 8 * c >= 2000.
C16_ExactRatchetPeriod ==
  [][ (OnTimer /\ edition = "menu" /\ choppiness > 1) =>
        IF (now - lastRatchetToggle) * RATCHET_BASE_HZ * choppiness >= 2000
          THEN ratchetOn' = ~ratchetOn /\ lastRatchetToggle' = now
          ELSE UNCHANGED << ratchetOn, lastRatchetToggle >> ]_vars

\* the ratchet period in whole milliseconds
WholePeriod(c) == CASE c = 2 -> 125 [] c = 4 -> 62 [] c = 8 -> 31

\* C16 (SpecSettings), amended: with choppiness c in {2, 4, 8} an invocation of
\* onTimer flips the gate and records the time exactly when the time since the
\* last toggle is at least the integer quotient 1000 / (8 * (c / 2)) ms, which
\* is 125 for c = 2, 62 for c = 4 and 31 for c = 8.
C16_TruncatedRatchetPeriod ==
  [][ (OnTimer /\ edition = "menu" /\ choppiness > 1) =>
        /\ choppiness \in {2, 4, 8}
        /\ IF now - lastRatchetToggle >= WholePeriod(choppiness)
             THEN ratchetOn' = ~ratchetOn /\ lastRatchetToggle' = now
             ELSE UNCHANGED << ratchetOn, lastRatchetToggle >> ]_vars

\* at level 8 onTimer ran 31 ms after the last toggle and recorded that time
C16_Witness ==
  /\ edition = "menu"
  /\ choppiness = 8
  /\ lastOp = "onTimer"
  /\ now = 31
  /\ lastRatchetToggle = 31
  /\ millisRead = -1
  /\ currentNote = -1

\* C17 (SpecVolume): an invocation of onTimer that emits a table sample writes
\* floor(t * v / 255), t the entry of the active table at the phase it found and
\* v the volume: a value of 0..255, at most t, 128 for t = 255 and v = 128, 0 for
\* v = 0 and t for v = 255.
C17_VolumeScaling ==
  [][ (OnTimer /\ currentSample' # currentSample) =>
        LET t == TableAt(currentWaveform, currentSample)
            v == volume
        IN  /\ t \in 0..255 /\ v \in 0..255
            /\ dac' * 255 <= t * v
            /\ t * v < (dac' + 1) * 255
            /\ dac' \in 0..255
            /\ dac' <= t
            /\ (t = 255 /\ v = 128) => dac' = 128
            /\ v = 0 => dac' = 0
            /\ v = 255 => dac' = t ]_vars

\* the square table's 255 has just been emitted at volume 128
C17_Witness ==
  /\ lastOp = "onTimer"
  /\ currentWaveform = "SQUARE"
  /\ currentSample = 1
  /\ volume = 128
  /\ dac = 128

\* C18 (SpecSettings): an invocation of onTimer leaves currentFreq, volume,
\* currentWaveform, choppiness, currentNote, isHighOctave and the timer period
\* unchanged; a step that is not an invocation of onTimer leaves currentSample
\* unchanged, and changes ratchetOn or lastRatchetToggle only at the two
\* statements of playNote that write them.
C18_SingleWriter ==
  [][ IF OnTimer
        THEN UNCHANGED << currentFreq, volume, currentWaveform, choppiness,
                          currentNote, isHighOctave, timerPeriod, timerEnabled >>
        ELSE /\ currentSample' = currentSample
             /\ lastRatchetToggle' # lastRatchetToggle => pc = "playNote_ratchetTime"
             /\ ratchetOn' # ratchetOn => pc = "playNote_ratchetOn" ]_vars

\* onTimer has run, and closed the gate, while a note sounds in the high octave
\* at choppiness 8
C18_Witness ==
  /\ lastOp = "onTimer"
  /\ edition = "menu"
  /\ currentFreq > 0
  /\ isHighOctave
  /\ choppiness = 8
  /\ ~ratchetOn
  /\ currentSample > 0

\* C20 (SpecSettings), the claim as stated: in the menu edition, from the
\* statement of setFrequency that stores the new note's frequency to the return
\* of playNote, an invocation of onTimer that finds currentFreq > 0 finds the
\* gate open and emits a table sample.
C20_GateOpenWhenFreqVisible ==
  ( /\ edition = "menu"
    /\ pc \in {"timerAlarmDisable", "timerAlarmWrite", "timerAlarmEnable",
               "playNote_note", "playNote_ratchetTime", "playNote_ratchetOn"}
    /\ currentFreq > 0
    /\ lastOp = "onTimer" ) => ratchetOn

\* C21 (SpecScan): a scanKeyboard pass whose lowest active key is the sounding
\* note makes no call and leaves currentFreq, currentNote, the timer period,
\* ratchetOn and lastRatchetToggle as they are; a pass with no active key calls
\* stopNote when a note sounds and changes none of them when none does; a pass
\* whose lowest active key differs from the sounding note calls playNote for
\* that key.
C21_RetriggerOnlyOnChange ==
  [][ (pc = "scanKeyboard" /\ pc' # pc) =>
        IF keysRead' # {}
          THEN LET low == CHOOSE k \in keysRead' : \A j \in keysRead' : k <= j
               IN  IF low = currentNote
                     THEN /\ pc' = LoopTop
                          /\ UNCHANGED << currentFreq, currentNote, timerPeriod,
                                          timerEnabled, ratchetOn, lastRatchetToggle >>
                     ELSE /\ pc' = "playNote"
                          /\ noteIndex' = low
          ELSE IF currentNote # -1
                 THEN pc' = "stopNote"
                 ELSE /\ pc' = LoopTop
                      /\ UNCHANGED << currentFreq, currentNote, timerPeriod,
                                      timerEnabled, ratchetOn, lastRatchetToggle >> ]_vars

\* keys 7 and 9 are held while note 7 sounds with the ratchet gate closed: the
\* pass has made no call and the gate is as the interrupt left it
C21_Witness ==
  /\ pc = LoopTop
  /\ lastOp = "step"
  /\ keysRead = {7, 9}
  /\ currentNote = 7
  /\ currentFreq = 392
  /\ choppiness = 8
  /\ ~ratchetOn
  /\ lastRatchetToggle > 0

\* C22 (SpecRatchet): while a note is held with choppiness 2, 4 or 8, the clock
\* advancing and the timer interrupt firing, the held note stays as it is, every
\* state with the gate open is followed by one with the gate closed and every
\* state with the gate closed by one with the gate open.
C22_GateAlternates ==
  /\ [](currentFreq > 0 /\ currentNote = 9 /\ ~InCall /\ choppiness \in {2, 4, 8})
  /\ (ratchetOn ~> ~ratchetOn)
  /\ (~ratchetOn ~> ratchetOn)

\* at level 4 the interrupt has closed the gate after more than a hundred
\* emitted samples of the held note
C22_Witness ==
  /\ lastOp = "onTimer"
  /\ currentNote = 9
  /\ keysRead = {9}
  /\ choppiness = 4
  /\ ~ratchetOn
  /\ currentSample > 100
  /\ now = lastRatchetToggle

\* C23 (SpecSettings): in every state where no playNote or stopNote call is in
\* progress, currentNote is -1 exactly when currentFreq is 0, and a currentNote
\* of 0 or more comes with a currentFreq above 0.
C23_NoteAgreesWithFreq ==
  ~InCall =>
    /\ (currentNote = -1) <=> (currentFreq = 0)
    /\ currentNote >= 0 => currentFreq > 0

\* the low key is sounding in the high octave after the octave changed under
\* it, and the interrupt has emitted since the call returned
C23_Witness ==
  /\ ~InCall
  /\ lastOp = "onTimer"
  /\ keysRead = {}
  /\ isHighOctave
  /\ currentNote = 3
  /\ currentFreq = ToInt(ResolveFreq(3, TRUE))
  /\ currentSample > 0

=============================================================================
